---- MODULE Spec2Model ----
(***************************************************************************)
(* Model of the upload / feed / delete handlers of app/app.py over the     *)
(* User and Post tables of app/db.py.                                      *)
(*                                                                         *)
(* Every request runs in a slot r \in Reqs of one server process.  A        *)
(* handler is an `async def`: it gives up the event loop only at an        *)
(* `await` (session.commit, session.refresh, session.rollback,             *)
(* session.execute, session.delete).  The file and gateway calls of        *)
(* upload_file are plain blocking calls, so the handler keeps the event    *)
(* loop from its first line up to `await session.commit()`, and again      *)
(* from the resumption after its last await to the end of `finally`.       *)
(***************************************************************************)
EXTENDS Integers, Sequences, FiniteSets, TLC

\* ---------------------------------------------------------------- bounds
\* requests received after startup
MaxRequests == 2

\* request slots: two requests are in progress at a time
Reqs == {1, 2}

\* ------------------------------------------------------- values and inputs
NoneV == "<None>"
Missing == "<missing>"

\* user rows ever created: the two of startup and those registered later
MaxUsers == 3

\* the accounts the user table holds at startup
UserIds == {1, 2}
Email(u) == IF u = 1 THEN "a@x.io" ELSE "b@x.io"
\* the addresses a registration or a profile update may give
Emails == {"a@x.io", "b@x.io"}

\* declared content types of an upload, as character sequences
NoContentType == <<NoneV>>
VideoMp4 == <<"v", "i", "d", "e", "o", "/", "m", "p", "4">>
ImagePng == <<"i", "m", "a", "g", "e", "/", "p", "n", "g">>
VideoNoSlash == <<"v", "i", "d", "e", "o">>
VideoPrefix == <<"v", "i", "d", "e", "o", "/">>
ContentTypes == {NoContentType, VideoMp4, ImagePng, VideoNoSlash}

Filenames == {NoneV, "a.png"}
Titles == {NoneV}
Contents == {NoneV}
\* the gateway names every stored object by a url of its own
UrlOf(i) == "u" \o ToString(i)
X16 == "xxxxxxxxxxxxxxxx"
X256 == X16 \o X16 \o X16 \o X16 \o X16 \o X16 \o X16 \o X16
        \o X16 \o X16 \o X16 \o X16 \o X16 \o X16 \o X16 \o X16
\* a url of more than 500 characters
LongUrlOf(i) == UrlOf(i) \o X256 \o X256
\* a name of 256 characters
LongName == X256
GatewayNames == {"n.png"}

\* what imagekit.upload_file may hand back: it raises, or returns a dict or
\* an object whose url may be absent, None, empty or a value and whose name
\* may be absent, None or a value
GatewayResults(i) ==
    [shape : {"dict", "object"},
     url   : {UrlOf(i)},
     name  : {Missing, NoneV} \cup GatewayNames]
    \cup
    [shape : {"dict", "object"},
     url   : {Missing, NoneV, ""},
     name  : GatewayNames]
    \cup
    {[shape |-> "dict", url |-> UrlOf(i), name |-> LongName],
     [shape |-> "object", url |-> LongUrlOf(i), name |-> "n.png"]}
NoResult == [shape |-> "none", url |-> Missing, name |-> Missing]

\* ------------------------------------------------------------ conversions
\* str(uuid) and the parse the database applies to a uuid given as text
UuidStr(u) == <<"uuid", u>>
UuidParse(s) == s[2]
\* datetime.isoformat()
IsoFormat(t) == <<"iso", t>>

\* ------------------------------------------------------- python semantics
\* truth value of an optional string, and of an optional content type
Truthy(v) == v \notin {NoneV, Missing, ""}
TruthyType(ct) == ct # NoContentType /\ ct # <<>>
PyOr(a, b) == IF Truthy(a) THEN a ELSE b
DictGet(d, k) == IF d[k] = Missing THEN NoneV ELSE d[k]
GetAttr(o, k, default) == IF o[k] = Missing THEN default ELSE o[k]
StartsWith(s, p) == Len(s) >= Len(p) /\ SubSeq(s, 1, Len(p)) = p

\* ----------------------------------------------------------------- state
VARIABLES
    users,          \* table user: set of [id, email]
    posts,          \* table posts: set of Post rows
    nextId,         \* next uuid4 handed out for Post.id
    nextUserId,     \* next uuid4 handed out for User.id
    clock,          \* datetime.now() seen by the next insert
    gateway,        \* objects held by the storage gateway
    tempFiles,      \* staging files on disk (by path)
    handles,        \* open file handles on staging files
    started,        \* number of requests received so far
    kind,           \* per request: "none", "upload", "feed", "delete"
    pc,             \* per request: position in its handler
    inv,            \* per request: number of the invocation
    user,           \* per request: id of the authenticated caller
    req,            \* per request: the request's inputs
    temp_file_path, \* upload local (0 = None)
    file_handle,    \* upload local (0 = None)
    url,            \* upload local
    name,           \* upload local
    post,           \* upload local / delete local: the ORM object
    txn,            \* per request: state of the session's transaction
    rposts,         \* feed local: posts as read
    resp,           \* per request: the response sent
    fail,           \* upload: where the invocation failed ("" = nowhere)
    result,         \* upload: what the gateway returned to this invocation
    cleanups,       \* upload: number of times the finally block has run
    origin,         \* history: per Post id, the invocation that created it
    deleted         \* history: ids of Posts removed by delete_post

vars == <<users, posts, nextId, nextUserId, clock, gateway, tempFiles,
          handles, started, kind, pc, inv, user, req, temp_file_path,
          file_handle, url, name, post, txn, rposts, resp, fail, result,
          cleanups, origin, deleted>>

dbVars == <<users, posts, nextId, nextUserId, clock, origin, deleted>>
fsVars == <<tempFiles, handles>>
uploadLocals == <<temp_file_path, file_handle, url, name, result>>

NoReq == [filename |-> NoneV, content_type |-> NoContentType,
          title |-> NoneV, content |-> NoneV, post_id |-> UuidStr(0)]
NoPost == [id |-> 0, user_id |-> 0, title |-> NoneV, content |-> NoneV,
           url |-> NoneV, file_type |-> NoneV, file_name |-> NoneV,
           created_at |-> 0, updated_at |-> 0]
NoResp == [status |-> 0, body |-> [detail |-> ""]]

\* the posts table is created if absent (db.py lines 51-53) and outlives
\* the process: at startup it is empty or holds a Post of an earlier run
\* (invocation 0), whose object the gateway holds
SeedPost == [id |-> 1, user_id |-> 1, title |-> "", content |-> "",
             url |-> UrlOf(0), file_type |-> "image", file_name |-> "a.png",
             created_at |-> 1, updated_at |-> 1]

HttpError(code, detail) == [status |-> code, body |-> [detail |-> detail]]

Init ==
    /\ users = {[id |-> u, email |-> Email(u)] : u \in UserIds}
    /\ nextUserId = 3
    /\ \/ posts = {} /\ origin = <<>> /\ nextId = 1 /\ clock = 1
          /\ gateway = {}
       \/ posts = {SeedPost} /\ origin = <<0>> /\ nextId = 2 /\ clock = 2
          /\ gateway = {[inv |-> 0, url |-> UrlOf(0)]}
    /\ tempFiles = {}
    /\ handles = {}
    /\ started = 0
    /\ kind = [r \in Reqs |-> "none"]
    /\ pc = [r \in Reqs |-> "idle"]
    /\ inv = [r \in Reqs |-> 0]
    /\ user = [r \in Reqs |-> 0]
    /\ req = [r \in Reqs |-> NoReq]
    /\ temp_file_path = [r \in Reqs |-> 0]
    /\ file_handle = [r \in Reqs |-> 0]
    /\ url = [r \in Reqs |-> NoneV]
    /\ name = [r \in Reqs |-> NoneV]
    /\ post = [r \in Reqs |-> NoPost]
    /\ txn = [r \in Reqs |-> "none"]
    /\ rposts = [r \in Reqs |-> <<>>]
    /\ resp = [r \in Reqs |-> NoResp]
    /\ fail = [r \in Reqs |-> ""]
    /\ result = [r \in Reqs |-> NoResult]
    /\ cleanups = [r \in Reqs |-> 0]
    /\ deleted = {}

\* ------------------------------------------------------------- scheduling
\* positions at which upload_file is inside a run of blocking calls and so
\* has not returned control to its event loop
SyncPcs == {"copying", "staged", "opened", "returned", "finally"}
Holding(r) == pc[r] \in SyncPcs
\* request r can be resumed: its event loop is not held by another request
Runnable(r) == \A r2 \in Reqs \ {r} : ~Holding(r2)

\* a slot takes a new request: the framework resolves current_active_user
\* and a fresh session before the handler body runs (slots are
\* interchangeable, so the lowest free one is taken)
Begin(r, k, u, inputs) ==
    /\ pc[r] \in {"idle", "done"}
    /\ \A r2 \in Reqs : r2 < r => pc[r2] \notin {"idle", "done"}
    /\ started < MaxRequests
    /\ started' = started + 1
    /\ kind' = [kind EXCEPT ![r] = k]
    /\ pc' = [pc EXCEPT ![r] = "received"]
    /\ inv' = [inv EXCEPT ![r] = started + 1]
    /\ user' = [user EXCEPT ![r] = u]
    /\ req' = [req EXCEPT ![r] = inputs]
    /\ temp_file_path' = [temp_file_path EXCEPT ![r] = 0]
    /\ file_handle' = [file_handle EXCEPT ![r] = 0]
    /\ url' = [url EXCEPT ![r] = NoneV]
    /\ name' = [name EXCEPT ![r] = NoneV]
    /\ post' = [post EXCEPT ![r] = NoPost]
    /\ txn' = [txn EXCEPT ![r] = "none"]
    /\ rposts' = [rposts EXCEPT ![r] = <<>>]
    /\ resp' = [resp EXCEPT ![r] = NoResp]
    /\ fail' = [fail EXCEPT ![r] = ""]
    /\ result' = [result EXCEPT ![r] = NoResult]
    /\ cleanups' = [cleanups EXCEPT ![r] = 0]
    /\ UNCHANGED <<dbVars, gateway, fsVars>>

\* ---------------------------------------------------------- upload_file
\* lines 83-88: url and name out of either result shape
ExtractUrl(res) ==
    IF res.shape = "dict" THEN DictGet(res, "url")
    ELSE GetAttr(res, "url", NoneV)
ExtractName(res, filename) ==
    IF res.shape = "dict" THEN PyOr(DictGet(res, "name"), filename)
    ELSE GetAttr(res, "name", filename)

\* line 91: `if not url` raises
UrlAcceptedEmpty(u) == u # NoneV
UrlAccepted(u) == Truthy(u)

\* line 95
FileTypeNoSlash(ct) ==
    IF TruthyType(ct) /\ StartsWith(ct, VideoNoSlash) THEN "video" ELSE "image"
FileType(ct) ==
    IF TruthyType(ct) /\ StartsWith(ct, VideoPrefix) THEN "video" ELSE "image"

\* lines 98-105: the Post object before it is flushed (no id, no timestamps)
NewPostUrlFromName(title, content, u, ft, n, uid) ==
    [id |-> 0, user_id |-> uid, title |-> PyOr(title, ""),
     content |-> PyOr(content, ""), url |-> n, file_type |-> ft,
     file_name |-> n, created_at |-> 0, updated_at |-> 0]
NewPost(title, content, u, ft, n, uid) ==
    [id |-> 0, user_id |-> uid, title |-> PyOr(title, ""),
     content |-> PyOr(content, ""), url |-> u, file_type |-> ft,
     file_name |-> n, created_at |-> 0, updated_at |-> 0]

\* the insert the commit flushes: column defaults of db.py lines 33, 40, 41
Flushed(p, id, now) ==
    [p EXCEPT !.id = id, !.created_at = now, !.updated_at = now]

\* a value fits a String(n) column: NULL, or at most n characters
Fits(v, n) == v = NoneV \/ Len(v) <= n

\* db.py lines 34-39: NOT NULL columns, the column widths and the foreign
\* key to user.id
InsertAllowed(p, us) ==
    /\ p.url # NoneV
    /\ p.file_type # NoneV
    /\ p.file_name # NoneV
    /\ Fits(p.title, 255)
    /\ Fits(p.url, 500)
    /\ Fits(p.file_type, 50)
    /\ Fits(p.file_name, 255)
    /\ \E u \in us : u.id = p.user_id

\* line 108: the rows of posts after the commit of a session holding p
RowsAfterCommitAlways(rows, p, ok) == rows \cup {p}
RowsAfterCommit(rows, p, ok) == IF ok THEN rows \cup {p} ELSE rows

\* lines 111-120
Payload(p) ==
    [id |-> UuidStr(p.id), title |-> p.title, content |-> p.content,
     url |-> p.url, file_type |-> p.file_type, file_name |-> p.file_name,
     user_id |-> UuidStr(p.user_id),
     created_at |-> IF p.created_at # 0 THEN IsoFormat(p.created_at)
                    ELSE <<NoneV>>]

\* lines 122-128: where control goes when the try body raises
PcAfterRaiseSkipsFinally(exc) ==
    IF exc = "HTTPException" THEN "done" ELSE "rollback"
PcAfterRaise(exc) ==
    IF exc = "HTTPException" THEN "finally" ELSE "rollback"

\* lines 130-133
CloseHandle(hs, fh) ==
    IF fh # 0 THEN hs \ {[path |-> fh, var |-> "file_handle"]} ELSE hs
UnlinkNever(files, path) == files
Unlink(files, path) ==
    IF path # 0 /\ path \in files THEN files \ {path} ELSE files

StartUpload(r) ==
    \E u \in users : Begin(r, "upload", u.id, NoReq)

\* the try body raises exc at position `where`; the locals of the try body
\* are not read again (the finally block reads temp_file_path and
\* file_handle only)
Raise(r, exc, where, response) ==
    /\ pc' = [pc EXCEPT ![r] = PcAfterRaise(exc)]
    /\ fail' = [fail EXCEPT ![r] = where]
    /\ resp' = [resp EXCEPT ![r] = response]
    /\ url' = [url EXCEPT ![r] = NoneV]
    /\ name' = [name EXCEPT ![r] = NoneV]
    /\ post' = [post EXCEPT ![r] = NoPost]
    /\ result' = [result EXCEPT ![r] = NoResult]
    /\ req' = [req EXCEPT ![r] = NoReq]

\* lines 66-72: NamedTemporaryFile(delete=False, suffix=splitext(filename));
\* file.filename is first read here
StageCreate(r) ==
    /\ kind[r] = "upload" /\ pc[r] = "received" /\ Runnable(r)
    /\ \E fn \in Filenames, created \in BOOLEAN :
        IF fn = NoneV \/ ~created
        THEN /\ Raise(r, "Exception", "stage", resp[r])
             /\ UNCHANGED <<fsVars, temp_file_path>>
        ELSE /\ req' = [req EXCEPT ![r].filename = fn]
             /\ tempFiles' = tempFiles \cup {inv[r]}
             /\ handles' = handles \cup {[path |-> inv[r], var |-> "temp_file"]}
             /\ temp_file_path' = [temp_file_path EXCEPT ![r] = inv[r]]
             /\ pc' = [pc EXCEPT ![r] = "copying"]
             /\ UNCHANGED <<fail, resp, url, name, post, result>>
    /\ UNCHANGED <<dbVars, gateway, started, kind, inv, user,
                   file_handle, txn, rposts, cleanups>>

\* line 73 and the exit of the with block, which closes temp_file
StageCopy(r) ==
    /\ kind[r] = "upload" /\ pc[r] = "copying" /\ Runnable(r)
    /\ handles' = handles \ {[path |-> temp_file_path[r], var |-> "temp_file"]}
    /\ \E copied \in BOOLEAN :
        IF copied
        THEN /\ pc' = [pc EXCEPT ![r] = "staged"]
             /\ UNCHANGED <<fail, resp, url, name, post, result, req>>
        ELSE Raise(r, "Exception", "stage", resp[r])
    /\ UNCHANGED <<dbVars, gateway, tempFiles, started, kind,
                   inv, user, temp_file_path, file_handle, txn, rposts,
                   cleanups>>

\* line 76
OpenHandle(r) ==
    /\ kind[r] = "upload" /\ pc[r] = "staged" /\ Runnable(r)
    /\ \E opened \in BOOLEAN :
        IF opened
        THEN /\ file_handle' = [file_handle EXCEPT ![r] = temp_file_path[r]]
             /\ handles' = handles \cup
                    {[path |-> temp_file_path[r], var |-> "file_handle"]}
             /\ pc' = [pc EXCEPT ![r] = "opened"]
             /\ UNCHANGED <<fail, resp, url, name, post, result, req>>
        ELSE /\ Raise(r, "Exception", "open", resp[r])
             /\ UNCHANGED <<file_handle, handles>>
    /\ UNCHANGED <<dbVars, gateway, tempFiles, started, kind,
                   inv, user, temp_file_path, txn, rposts, cleanups>>

\* lines 77-80: the gateway call raises
GatewayRaises(r) ==
    /\ kind[r] = "upload" /\ pc[r] = "opened" /\ Runnable(r)
    /\ Raise(r, "Exception", "gateway", resp[r])
    /\ UNCHANGED <<dbVars, gateway, fsVars, started, kind, inv,
                   user, temp_file_path, file_handle, txn, rposts, cleanups>>

\* lines 77-80: the gateway call returns upload_result; the gateway keeps
\* the object when it reports a url for it
GatewayReturns(r) ==
    /\ kind[r] = "upload" /\ pc[r] = "opened" /\ Runnable(r)
    /\ \E res \in GatewayResults(inv[r]) :
        /\ result' = [result EXCEPT ![r] = res]
        /\ gateway' = IF Truthy(res.url)
                      THEN gateway \cup {[inv |-> inv[r], url |-> res.url]}
                      ELSE gateway
    /\ pc' = [pc EXCEPT ![r] = "returned"]
    /\ UNCHANGED <<dbVars, fsVars, started, kind, inv, user,
                   req, temp_file_path, file_handle, url, name, post, txn,
                   rposts, resp, fail, cleanups>>

\* lines 83-107: url and name are extracted, the url is checked, the Post
\* is built and added to the session; file.content_type, title and content
\* are first read here, upload_result is not read again
BuildPost(r) ==
    /\ kind[r] = "upload" /\ pc[r] = "returned" /\ Runnable(r)
    /\ LET u == ExtractUrl(result[r])
           n == ExtractName(result[r], req[r].filename)
       IN  IF ~UrlAccepted(u)
           THEN Raise(r, "HTTPException", "nourl",
                      HttpError(500, "File upload failed - no URL returned"))
                /\ UNCHANGED txn
           ELSE \E ct \in ContentTypes, t \in Titles, c \in Contents :
                /\ req' = [req EXCEPT ![r].content_type = ct,
                                      ![r].title = t, ![r].content = c]
                /\ url' = [url EXCEPT ![r] = u]
                /\ name' = [name EXCEPT ![r] = n]
                /\ post' = [post EXCEPT ![r] =
                               NewPost(t, c, u, FileType(ct), n, user[r])]
                /\ result' = [result EXCEPT ![r] = NoResult]
                /\ txn' = [txn EXCEPT ![r] = "pending"]
                /\ pc' = [pc EXCEPT ![r] = "committing"]
                /\ UNCHANGED <<fail, resp>>
    /\ UNCHANGED <<dbVars, gateway, fsVars, started, kind, inv,
                   user, temp_file_path, file_handle, rposts, cleanups>>

\* line 108: await session.commit()
Commit(r) ==
    /\ kind[r] = "upload" /\ pc[r] = "committing" /\ Runnable(r)
    /\ \E dbok \in BOOLEAN :
        LET ok == dbok /\ InsertAllowed(post[r], users)
            row == Flushed(post[r], nextId, clock)
        IN  /\ posts' = RowsAfterCommit(posts, row, ok)
            /\ IF ok
               THEN /\ nextId' = nextId + 1
                    /\ clock' = clock + 1
                    /\ origin' = Append(origin, inv[r])
                    /\ post' = [post EXCEPT ![r] = row]
                    /\ req' = [req EXCEPT ![r] = NoReq]
                    /\ txn' = [txn EXCEPT ![r] = "committed"]
                    /\ pc' = [pc EXCEPT ![r] = "refreshing"]
                    /\ UNCHANGED <<fail, resp, url, name, result>>
               ELSE /\ Raise(r, "Exception", "commit", resp[r])
                    /\ UNCHANGED <<nextId, clock, origin, txn>>
    /\ UNCHANGED <<users, nextUserId, deleted, gateway, fsVars, started,
                   kind, inv, user, temp_file_path, file_handle, rposts,
                   cleanups>>

\* lines 109-120: await session.refresh(post), then the payload is returned
Refresh(r) ==
    /\ kind[r] = "upload" /\ pc[r] = "refreshing" /\ Runnable(r)
    /\ \E dbok \in BOOLEAN :
        LET rows == {p \in posts : p.id = post[r].id}
        IN  IF dbok /\ rows # {}
            THEN /\ \E p \in rows :
                    resp' = [resp EXCEPT ![r] =
                                [status |-> 200, body |-> Payload(p)]]
                 /\ post' = [post EXCEPT ![r] = NoPost]
                 /\ pc' = [pc EXCEPT ![r] = "finally"]
                 /\ UNCHANGED <<fail, url, name, result, req>>
            ELSE Raise(r, "Exception", "refresh", resp[r])
    /\ UNCHANGED <<dbVars, gateway, fsVars, started, kind, inv,
                   user, temp_file_path, file_handle, txn, rposts, cleanups>>

\* an exception that leaves a handler unhandled: the framework answers
\* 500, and the session is closed on the way out (db.py line 57), which
\* discards a transaction in progress
Unhandled == HttpError(500, "Internal Server Error")
Discarded(t) == IF t = "pending" THEN "rolledback" ELSE t

\* lines 124-126: await session.rollback(), then HTTPException(500); when
\* the rollback itself raises, that exception leaves the handler
Rollback(r) ==
    /\ kind[r] = "upload" /\ pc[r] = "rollback" /\ Runnable(r)
    /\ txn' = [txn EXCEPT ![r] = Discarded(@)]
    /\ \E dbok \in BOOLEAN :
        resp' = [resp EXCEPT ![r] =
                    IF dbok THEN HttpError(500, "An error occurred")
                    ELSE Unhandled]
    /\ pc' = [pc EXCEPT ![r] = "finally"]
    /\ UNCHANGED <<dbVars, gateway, fsVars, started, kind, inv,
                   user, req, uploadLocals, post, rposts, fail, cleanups>>

\* lines 128-134: the finally block
Finally(r) ==
    /\ kind[r] = "upload" /\ pc[r] = "finally" /\ Runnable(r)
    /\ handles' = CloseHandle(handles, file_handle[r])
    /\ tempFiles' = Unlink(tempFiles, temp_file_path[r])
    /\ cleanups' = [cleanups EXCEPT ![r] = @ + 1]
    /\ pc' = [pc EXCEPT ![r] = "done"]
    /\ temp_file_path' = [temp_file_path EXCEPT ![r] = 0]
    /\ file_handle' = [file_handle EXCEPT ![r] = 0]
    /\ url' = [url EXCEPT ![r] = NoneV]
    /\ name' = [name EXCEPT ![r] = NoneV]
    /\ UNCHANGED <<dbVars, gateway, started, kind, inv, user,
                   req, result, post, txn, rposts, resp, fail>>

UploadStep(r) ==
    \/ StageCreate(r) \/ StageCopy(r) \/ OpenHandle(r)
    \/ GatewayRaises(r) \/ GatewayReturns(r) \/ BuildPost(r)
    \/ Commit(r) \/ Refresh(r) \/ Rollback(r) \/ Finally(r)

\* ------------------------------------------------------------- get_feed
RECURSIVE OrderByCreatedAtDesc(_)
\* line 145: select(Post).order_by(Post.created_at.desc())
OrderByCreatedAtDesc(rows) ==
    IF rows = {} THEN <<>>
    ELSE LET first == CHOOSE p \in rows :
                          \A q \in rows : q.created_at <= p.created_at
         IN  <<first>> \o OrderByCreatedAtDesc(rows \ {first})

\* line 152: {str(u.id): u.email for u in users}
UserDict(us) ==
    [k \in {UuidStr(u.id) : u \in us} |->
        (CHOOSE u \in us : UuidStr(u.id) = k).email]
\* dict.get(key, default)
Lookup(d, k, default) == IF k \in DOMAIN d THEN d[k] ELSE default

\* lines 156-167: one decorated post
FeedEntryOwnerAlways(p, uid, user_dict) ==
    [id |-> UuidStr(p.id), user_id |-> UuidStr(p.user_id),
     title |-> p.title, content |-> p.content, url |-> p.url,
     file_type |-> p.file_type, file_name |-> p.file_name,
     created_at |-> IF p.created_at # 0 THEN IsoFormat(p.created_at)
                    ELSE <<NoneV>>,
     is_owner |-> TRUE,
     email |-> Lookup(user_dict, UuidStr(p.user_id), "Unknown")]
FeedEntry(p, uid, user_dict) ==
    [id |-> UuidStr(p.id), user_id |-> UuidStr(p.user_id),
     title |-> p.title, content |-> p.content, url |-> p.url,
     file_type |-> p.file_type, file_name |-> p.file_name,
     created_at |-> IF p.created_at # 0 THEN IsoFormat(p.created_at)
                    ELSE <<NoneV>>,
     is_owner |-> (p.user_id = uid),
     email |-> Lookup(user_dict, UuidStr(p.user_id), "Unknown")]

StartFeed(r) ==
    \E u \in users : Begin(r, "feed", u.id, NoReq)

\* lines 144-147: await session.execute(select(Post)...), which may raise
FeedReadPosts(r) ==
    /\ kind[r] = "feed" /\ pc[r] = "received" /\ Runnable(r)
    /\ \E dbok \in BOOLEAN :
        IF dbok
        THEN /\ rposts' = [rposts EXCEPT ![r] = OrderByCreatedAtDesc(posts)]
             /\ pc' = [pc EXCEPT ![r] = "readusers"]
             /\ UNCHANGED resp
        ELSE /\ resp' = [resp EXCEPT ![r] = Unhandled]
             /\ pc' = [pc EXCEPT ![r] = "done"]
             /\ UNCHANGED rposts
    /\ UNCHANGED <<dbVars, gateway, fsVars, started, kind, inv,
                   user, req, uploadLocals, post, txn, fail, cleanups>>

\* lines 150-171: await session.execute(select(User)), which may raise
FeedReadUsers(r) ==
    /\ kind[r] = "feed" /\ pc[r] = "readusers" /\ Runnable(r)
    /\ \E dbok \in BOOLEAN :
        LET user_dict == UserDict(users)
            posts_data == [i \in 1..Len(rposts[r]) |->
                              FeedEntry(rposts[r][i], user[r], user_dict)]
        IN  resp' = [resp EXCEPT ![r] =
                        IF dbok
                        THEN [status |-> 200,
                              body |-> [posts |-> posts_data,
                                        count |-> Len(posts_data)]]
                        ELSE Unhandled]
    /\ rposts' = [rposts EXCEPT ![r] = <<>>]
    /\ pc' = [pc EXCEPT ![r] = "done"]
    /\ UNCHANGED <<dbVars, gateway, fsVars, started, kind, inv,
                   user, req, uploadLocals, post, txn, fail, cleanups>>

\* ---------------------------------------------------------- delete_post
\* line 187
NotAuthorizedNever(uid, p) == FALSE
NotAuthorized(uid, p) == uid # p.user_id

\* lines 190-191: the rows of posts after the commit of a session in which
\* p is marked for deletion
RowsAfterDelete(rows, p, ok) ==
    IF ok THEN {q \in rows : q.id # p.id} ELSE rows

StartDelete(r) ==
    \E u \in users, id \in 0..(nextId - 1) :
        Begin(r, "delete", u.id, [NoReq EXCEPT !.post_id = UuidStr(id)])

\* lines 181-188: await session.execute(select(Post)...), which may raise
DeleteSelect(r) ==
    /\ kind[r] = "delete" /\ pc[r] = "received" /\ Runnable(r)
    /\ \E dbok \in BOOLEAN :
       LET rows == {p \in posts : p.id = UuidParse(req[r].post_id)}
       IN  IF ~dbok
           THEN /\ resp' = [resp EXCEPT ![r] = Unhandled]
                /\ pc' = [pc EXCEPT ![r] = "done"]
                /\ UNCHANGED post
           ELSE IF rows = {}
           THEN /\ resp' = [resp EXCEPT ![r] = HttpError(404, "Post not found")]
                /\ pc' = [pc EXCEPT ![r] = "done"]
                /\ UNCHANGED post
           ELSE \E p \in rows :
                IF NotAuthorized(user[r], p)
                THEN /\ resp' = [resp EXCEPT ![r] =
                            HttpError(403, "Not authorized to delete this post")]
                     /\ pc' = [pc EXCEPT ![r] = "done"]
                     /\ UNCHANGED post
                ELSE /\ post' = [post EXCEPT ![r] = p]
                     /\ pc' = [pc EXCEPT ![r] = "deleting"]
                     /\ UNCHANGED resp
    /\ UNCHANGED <<dbVars, gateway, fsVars, started, kind, inv,
                   user, req, uploadLocals, txn, rposts, fail, cleanups>>

\* line 190: await session.delete(post) marks the object in the session,
\* or raises
DeleteMark(r) ==
    /\ kind[r] = "delete" /\ pc[r] = "deleting" /\ Runnable(r)
    /\ \E dbok \in BOOLEAN :
        IF dbok
        THEN /\ txn' = [txn EXCEPT ![r] = "pending"]
             /\ pc' = [pc EXCEPT ![r] = "committing"]
             /\ UNCHANGED <<post, resp>>
        ELSE /\ resp' = [resp EXCEPT ![r] = Unhandled]
             /\ post' = [post EXCEPT ![r] = NoPost]
             /\ pc' = [pc EXCEPT ![r] = "done"]
             /\ UNCHANGED txn
    /\ UNCHANGED <<dbVars, gateway, fsVars, started, kind, inv,
                   user, req, uploadLocals, rposts, fail, cleanups>>

\* lines 191-193: await session.commit() issues the DELETE (when another
\* request has removed the row meanwhile the DELETE matches no row, which
\* the ORM reports as a warning, and the commit goes through)
\* a commit that raises leaves the handler unhandled and the row in place
DeleteCommit(r) ==
    /\ kind[r] = "delete" /\ pc[r] = "committing" /\ Runnable(r)
    /\ \E dbok \in BOOLEAN :
        /\ posts' = RowsAfterDelete(posts, post[r], dbok)
        /\ IF dbok
           THEN /\ deleted' = deleted \cup {post[r].id}
                /\ txn' = [txn EXCEPT ![r] = "committed"]
                /\ resp' = [resp EXCEPT ![r] =
                       [status |-> 200,
                        body |-> [detail |-> "Post deleted successfully"]]]
           ELSE /\ txn' = [txn EXCEPT ![r] = Discarded(@)]
                /\ resp' = [resp EXCEPT ![r] = Unhandled]
                /\ UNCHANGED deleted
    /\ post' = [post EXCEPT ![r] = NoPost]
    /\ pc' = [pc EXCEPT ![r] = "done"]
    /\ UNCHANGED <<users, nextId, nextUserId, clock, origin, gateway,
                   fsVars, started, kind, inv, user, req, uploadLocals,
                   rposts, fail, cleanups>>

\* ------------------------------------------------------------ user table
userRest == <<posts, nextId, clock, origin, deleted,
              gateway, fsVars, started, kind, pc, inv, user, req,
              uploadLocals, post, txn, rposts, resp, fail, cleanups>>

\* no row of the user table has the address (the email column is unique)
EmailFree(us, e) == \A x \in us : x.email # e

\* POST /auth/register adds a User row; its id is a new uuid4
AddUser ==
    /\ nextUserId <= MaxUsers
    /\ \E e \in Emails :
        /\ EmailFree(users, e)
        /\ users' = users \cup {[id |-> nextUserId, email |-> e]}
    /\ nextUserId' = nextUserId + 1
    /\ UNCHANGED userRest

\* PATCH /users/me and PATCH /users/{id} change the email of a row
UpdateUser ==
    /\ \E x \in users, e \in Emails :
        /\ EmailFree(users, e)
        /\ users' = (users \ {x}) \cup {[x EXCEPT !.email = e]}
    /\ UNCHANGED <<nextUserId, userRest>>

\* DELETE /users/{id} removes a row; the foreign key of posts.user_id
\* refuses it while a Post references the row
DeleteUser ==
    /\ \E x \in users :
        /\ \A p \in posts : p.user_id # x.id
        /\ users' = users \ {x}
    /\ UNCHANGED <<nextUserId, userRest>>

\* a User row is removed out of band while Posts referencing it remain
RemoveUser ==
    /\ \E x \in users :
        /\ \E p \in posts : p.user_id = x.id
        /\ users' = users \ {x}
    /\ UNCHANGED <<nextUserId, userRest>>

\* ------------------------------------------------------------------ spec
Next ==
    \/ \E r \in Reqs : StartUpload(r)
    \/ \E r \in Reqs : StartFeed(r)
    \/ \E r \in Reqs : StartDelete(r)
    \/ \E r \in Reqs : StageCreate(r)
    \/ \E r \in Reqs : StageCopy(r)
    \/ \E r \in Reqs : OpenHandle(r)
    \/ \E r \in Reqs : GatewayRaises(r)
    \/ \E r \in Reqs : GatewayReturns(r)
    \/ \E r \in Reqs : BuildPost(r)
    \/ \E r \in Reqs : Commit(r)
    \/ \E r \in Reqs : Refresh(r)
    \/ \E r \in Reqs : Rollback(r)
    \/ \E r \in Reqs : Finally(r)
    \/ \E r \in Reqs : FeedReadPosts(r)
    \/ \E r \in Reqs : FeedReadUsers(r)
    \/ \E r \in Reqs : DeleteSelect(r)
    \/ \E r \in Reqs : DeleteMark(r)
    \/ \E r \in Reqs : DeleteCommit(r)
    \/ AddUser
    \/ UpdateUser
    \/ DeleteUser
    \/ RemoveUser

Spec == Init /\ [][Next]_vars

\* ---------------------------------------------------------- properties
Uploading(r) == kind[r] = "upload" /\ pc[r] \notin {"idle", "done"}
Terminated(r) == kind[r] = "upload" /\ pc[r] = "done"

\* the states of the upload workflow, read off the handler's position and
\* the response it has decided on
WorkflowState(r) ==
    IF resp[r].status = 200 THEN "COMPLETE"
    ELSE IF resp[r].status = 500 \/ pc[r] = "rollback" THEN "FAILED"
    ELSE IF pc[r] \in {"received", "copying"} THEN "RECEIVED"
    ELSE IF pc[r] \in {"staged", "opened", "returned"} THEN "STAGED"
    ELSE IF pc[r] = "committing" THEN "REMOTE_UPLOADED"
    ELSE IF pc[r] = "refreshing" THEN "PERSISTED"
    ELSE "NONE"

\* the step is one of request r
StepOf(r, from, to) == pc[r] = from /\ pc'[r] = to

\* C1: an upload whose gateway call raised, or returned a result with no
\* url, ends FAILED with a 500 response and no Post row is created for it;
\* no Post row ever carries a missing or empty url.
C1_NoPostOnGatewayFailure ==
    /\ \A r \in Reqs :
        (kind[r] = "upload" /\ fail[r] \in {"gateway", "nourl"}) =>
            /\ pc[r] \in {"rollback", "finally", "done"}
            /\ WorkflowState(r) = "FAILED"
            /\ pc[r] \in {"finally", "done"} => resp[r].status = 500
            /\ \A id \in DOMAIN origin : origin[id] # inv[r]
            /\ \A p \in posts : p.url # UrlOf(inv[r])
    /\ \A r \in Reqs :
        (kind[r] = "upload" /\ pc[r] = "returned"
            /\ ~Truthy(result[r].url)) =>
            \A id \in DOMAIN origin : origin[id] # inv[r]
    /\ \A p \in posts : Truthy(p.url)

C1_Witness ==
    \E r1, r2 \in Reqs :
        /\ Terminated(r1) /\ fail[r1] = "nourl" /\ resp[r1].status = 500
        /\ Terminated(r2) /\ fail[r2] = "gateway" /\ resp[r2].status = 500

\* C2: every staging file on disk and every open handle on one belongs to
\* an upload that has not terminated yet: once an upload has terminated,
\* however it ended, its staging file is gone and no handle on it is open.
C2_NoStagingLeak ==
    LET live == {inv[r] : r \in {x \in Reqs : Uploading(x)}}
    IN  /\ tempFiles \subseteq live
        /\ {h.path : h \in handles} \subseteq live
        /\ \A r \in Reqs : Terminated(r) =>
              /\ inv[r] \notin tempFiles
              /\ \A h \in handles : h.path # inv[r]

C2_Witness ==
    \E r1, r2 \in Reqs :
        /\ Terminated(r1) /\ resp[r1].status = 200
        /\ Terminated(r2) /\ fail[r2] = "refresh"
        /\ tempFiles = {} /\ handles = {}

\* the steps of delete_post as the claim states them
C3_DeleteSelectStep ==
    \A r \in Reqs :
        (kind[r] = "delete" /\ pc[r] = "received" /\ pc'[r] # "received") =>
            LET rows == {p \in posts : UuidStr(p.id) = req[r].post_id}
            IN  /\ \A p \in rows :
                    /\ user[r] # p.user_id =>
                        /\ resp'[r].status = 403
                        /\ pc'[r] = "done"
                        /\ posts' = posts
                    /\ user[r] = p.user_id => pc'[r] = "deleting"
                /\ UuidParse(req[r].post_id) \in deleted =>
                    /\ resp'[r].status = 404
                    /\ pc'[r] = "done"
C3_OwnerDeleteStep ==
    \A r \in Reqs :
        /\ (kind[r] = "delete" /\ pc[r] = "deleting"
                /\ pc'[r] # "deleting") =>
              (pc'[r] = "committing" /\ posts' = posts)
        /\ (kind[r] = "delete" /\ pc[r] = "committing"
                /\ pc'[r] # "committing") =>
              /\ resp'[r].status = 200
              /\ pc'[r] = "done"
              /\ \A p \in posts' : p.id # post[r].id
C3_FeedReadStep ==
    \A r \in Reqs :
        (kind[r] = "feed" /\ StepOf(r, "received", "readusers")) =>
            \A i \in 1..Len(rposts'[r]) : rposts'[r][i].id \notin deleted

\* C3 as claimed: on an existing Post, delete_post always answers a caller
\* who is not the owner with 403 and leaves the Post in place, and a delete
\* by the owner always goes through to a commit that removes the Post and
\* answers 200; a Post once deleted is in no later read of the feed and a
\* later delete of its id always gets 404.
C3_DeleteByOwnerOnly ==
    [][C3_DeleteSelectStep /\ C3_OwnerDeleteStep /\ C3_FeedReadStep]_vars

\* the request ends here because a database call of the handler raised
DatabaseFailed(r) ==
    pc'[r] = "done" /\ resp'[r] = Unhandled /\ posts' = posts

C3_DeleteSelectOrFail ==
    \A r \in Reqs :
        (kind[r] = "delete" /\ pc[r] = "received" /\ pc'[r] # "received") =>
            LET rows == {p \in posts : UuidStr(p.id) = req[r].post_id}
            IN  /\ \A p \in rows :
                    /\ user[r] # p.user_id =>
                        \/ /\ resp'[r].status = 403
                           /\ pc'[r] = "done"
                           /\ posts' = posts
                        \/ DatabaseFailed(r)
                    /\ user[r] = p.user_id =>
                        \/ pc'[r] = "deleting" /\ posts' = posts
                        \/ DatabaseFailed(r)
                /\ UuidParse(req[r].post_id) \in deleted =>
                    \/ resp'[r].status = 404 /\ pc'[r] = "done"
                    \/ DatabaseFailed(r)
C3_OwnerDeleteOrFail ==
    \A r \in Reqs :
        /\ (kind[r] = "delete" /\ pc[r] = "deleting"
                /\ pc'[r] # "deleting") =>
              \/ pc'[r] = "committing" /\ posts' = posts
              \/ DatabaseFailed(r)
        /\ (kind[r] = "delete" /\ pc[r] = "committing"
                /\ pc'[r] # "committing") =>
              \/ /\ resp'[r].status = 200
                 /\ pc'[r] = "done"
                 /\ \A p \in posts' : p.id # post[r].id
              \/ DatabaseFailed(r)

\* C3 as amended: on an existing Post, a delete by a caller who is not the
\* owner never removes the Post and is answered 403, and a delete by the
\* owner removes the Post and answers 200, unless a database call of the
\* request fails: then the request is answered 500 and leaves the Post in
\* place.  A Post once deleted is in no later read of the feed, and a later
\* delete of its id gets 404 (or 500 when its read fails).
C3_DeleteUnlessDatabaseFails ==
    /\ [](\A p \in posts : p.id \notin deleted)
    /\ [][C3_DeleteSelectOrFail /\ C3_OwnerDeleteOrFail
            /\ C3_FeedReadStep]_vars

C3_Witness ==
    \E r1, r2 \in Reqs :
        /\ kind[r1] = "delete" /\ pc[r1] = "done" /\ resp[r1].status = 200
        /\ kind[r2] = "delete" /\ pc[r2] = "done" /\ resp[r2].status = 404
        /\ req[r1].post_id = req[r2].post_id
        /\ inv[r1] < inv[r2]

\* C4: an upload whose commit failed after the gateway stored the object
\* has its transaction rolled back and ends FAILED with a 500 response; no
\* Post row of that invocation exists, and the gateway still holds the
\* object.
C4_CommitFailure ==
    \A r \in Reqs :
        (kind[r] = "upload" /\ fail[r] = "commit") =>
            /\ WorkflowState(r) = "FAILED"
            /\ pc[r] \in {"finally", "done"} =>
                  (resp[r].status = 500 /\ txn[r] = "rolledback")
            /\ \A id \in DOMAIN origin : origin[id] # inv[r]
            /\ \A p \in posts : p.url \notin {UrlOf(inv[r]), LongUrlOf(inv[r])}
            /\ \E o \in gateway :
                  o.inv = inv[r] /\ o.url \in {UrlOf(inv[r]), LongUrlOf(inv[r])}

C4_Witness ==
    \E r \in Reqs :
        /\ Terminated(r) /\ fail[r] = "commit" /\ resp[r].status = 500
        /\ txn[r] = "rolledback"
        /\ \E o \in gateway : o.inv = inv[r]

\* C5: when get_feed reads the users and returns its list, every entry
\* has is_owner true exactly when the Post's user_id is the caller's id, and
\* email "Unknown" exactly when the user table holds no row with the Post's
\* user_id, and that row's email otherwise.
C5_FeedBuildStep ==
    \A r \in Reqs :
        (kind[r] = "feed" /\ StepOf(r, "readusers", "done")
            /\ resp'[r].status = 200) =>
            LET out == resp'[r].body.posts
            IN  /\ Len(out) = Len(rposts[r])
                /\ \A i \in 1..Len(out) :
                    LET p == rposts[r][i]
                        e == out[i]
                    IN  /\ e.id = UuidStr(p.id)
                        /\ e.is_owner <=> (p.user_id = user[r])
                        /\ (e.email = "Unknown") <=>
                              ~(\E u \in users : u.id = p.user_id)
                        /\ \A u \in users :
                              u.id = p.user_id => e.email = u.email
C5_FeedDecoration == [][C5_FeedBuildStep]_vars

C5_Witness ==
    \E r \in Reqs :
        /\ kind[r] = "feed" /\ pc[r] = "done" /\ resp[r].status = 200
        /\ \E i, j \in 1..Len(resp[r].body.posts) :
            /\ resp[r].body.posts[i].email = "Unknown"
            /\ ~resp[r].body.posts[i].is_owner
            /\ resp[r].body.posts[j].email # "Unknown"
            /\ resp[r].body.posts[j].is_owner

\* the declared content type is a string beginning with the six characters
\* v i d e o /
DeclaredVideo(ct) ==
    /\ ct # NoContentType
    /\ Len(ct) >= 6
    /\ ct[1] = "v" /\ ct[2] = "i" /\ ct[3] = "d"
    /\ ct[4] = "e" /\ ct[5] = "o" /\ ct[6] = "/"

\* C6: every Post row has file_type image or video, and the row an upload
\* inserts has file_type video exactly when the upload's declared content
\* type starts with "video/" (image otherwise, also without content type).
C6_InsertStep ==
    \A r \in Reqs :
        (kind[r] = "upload" /\ StepOf(r, "committing", "refreshing")) =>
            /\ posts' # posts
            /\ \A p \in posts' \ posts :
                  (p.file_type = "video") <=> DeclaredVideo(req[r].content_type)
C6_FileType ==
    /\ [](\A p \in posts : p.file_type \in {"image", "video"})
    /\ [][C6_InsertStep]_vars

C6_Witness ==
    /\ \E p \in posts : p.file_type = "video" /\ p.id # SeedPost.id
    /\ \E r \in Reqs :
        /\ kind[r] = "upload" /\ pc[r] = "refreshing"
        /\ post[r].file_type = "image"

\* the file_name the Post is to get: the gateway's name when it returned
\* one, the original filename when the name is missing, None or empty
ExpectedName(res, filename) ==
    IF res.name \in {Missing, NoneV, ""} THEN filename ELSE res.name

\* C7: when the gateway returned a url, the Post built from the result has
\* the gateway's name as file_name, or the original filename when the
\* result carries no name (absent, None or empty), in either result shape.
C7_BuildStep ==
    \A r \in Reqs :
        (kind[r] = "upload" /\ StepOf(r, "returned", "committing")) =>
            post'[r].file_name = ExpectedName(result[r], req[r].filename)
C7_FileNameFallback == [][C7_BuildStep]_vars

\* C8: the url of every Post row, of the payload of every successful
\* upload and of every feed entry is the url the gateway returned to the
\* invocation that created the Post.
GatewayUrl(i, u) == [inv |-> i, url |-> u] \in gateway
C8_UrlUntransformed ==
    /\ \A p \in posts :
          p.id \in DOMAIN origin /\ GatewayUrl(origin[p.id], p.url)
    /\ \A r \in Reqs :
          (kind[r] = "upload" /\ resp[r].status = 200) =>
              GatewayUrl(inv[r], resp[r].body.url)
    /\ \A r \in Reqs :
          (kind[r] = "feed" /\ resp[r].status = 200) =>
              \A i \in 1..Len(resp[r].body.posts) :
                  LET e == resp[r].body.posts[i]
                  IN  GatewayUrl(origin[UuidParse(e.id)], e.url)
    /\ \A r \in Reqs : \A i \in 1..Len(rposts[r]) :
          GatewayUrl(origin[rposts[r][i].id], rposts[r][i].url)

C8_Witness ==
    \E r1, r2 \in Reqs :
        /\ Terminated(r1) /\ resp[r1].status = 200
        /\ kind[r2] = "feed" /\ pc[r2] = "done" /\ resp[r2].status = 200
        /\ \E i \in 1..Len(resp[r2].body.posts) :
            /\ resp[r2].body.posts[i].id = resp[r1].body.id
            /\ resp[r2].body.posts[i].url = UrlOf(inv[r1])

\* the handler body of upload r has begun and has not ended
InHandler(r) == Uploading(r) /\ pc[r] # "received"

\* C9: whenever two uploads are in progress, each of them can take its
\* next step (stage, gateway upload, persist, cleanup) without waiting for
\* the other.
C9_UploadsNeverBlock ==
    \A r1, r2 \in Reqs :
        (r1 # r2 /\ InHandler(r1) /\ InHandler(r2)) =>
            (ENABLED UploadStep(r1)) /\ (ENABLED UploadStep(r2))

\* C10: the finally block of an upload runs exactly once, and only after
\* the workflow has reached COMPLETE or FAILED and its response is decided.
C10_CleanupExactlyOnce ==
    \A r \in Reqs : kind[r] = "upload" =>
        /\ cleanups[r] <= 1
        /\ (pc[r] = "done") <=> (cleanups[r] = 1)
        /\ pc[r] \in {"finally", "done"} =>
              /\ WorkflowState(r) \in {"COMPLETE", "FAILED"}
              /\ resp[r].status \in {200, 500}

C10_Witness ==
    \E r1, r2 \in Reqs :
        /\ Terminated(r1) /\ resp[r1].status = 200 /\ cleanups[r1] = 1
        /\ Terminated(r2) /\ fail[r2] = "stage" /\ cleanups[r2] = 1

====
